---- MODULE Spec2Model ----
(***************************************************************************)
(* Ledger and stock consistency of the apiManngo backend: sales, orders,   *)
(* inter-warehouse transfers and payments, as the request handlers under   *)
(* src/resources implement them over the tables of src/models.py.          *)
(*                                                                         *)
(* A request is dispatched (Recibir), its handler runs whole, up to the     *)
(* commit or the rollback it ends with, and the request context is torn    *)
(* down (Teardown).  Money is counted in cents (Numeric(12, 2)), stock in  *)
(* units.                                                                  *)
(***************************************************************************)
EXTENDS Integers, Sequences, FiniteSets, TLC

(***************************************************************************)
(* Bounds of the model.                                                    *)
(***************************************************************************)
MaxVentas == 1      \* values the ventas id sequence hands out
MaxIdVenta == 10    \* last id of the ventas sequence of the long run
MaxPedidos == 1     \* values the pedidos id sequence hands out
MaxPagos == 2       \* values the pagos id sequence hands out
MaxLineas == 2      \* line items of one request
MaxPares == 2       \* (venta_id, monto) pairs of one batch
MaxCantidad == 2    \* quantity of one line item
StockInicial == 3   \* units of presentation 1 in warehouse 1 at the start
MaxObjetos == 2     \* objects save_file stores
MaxDepositos == 1   \* rows of depositos_bancarios

(***************************************************************************)
(* Rows and ids.                                                           *)
(***************************************************************************)
Almacenes == {1, 2}
Presentaciones == {1, 2}
Lotes == {1}

\* A nullable foreign key that is NULL (lote_id, almacen_id of an admin).
NoId == 0

\* Inventario.stock_minimo default.
StockMinimoDefault == 10

\* PresentacionProducto.precio_venta, in cents.
PrecioVenta(p) == 2500 * p

EstadosPedido == {"programado", "confirmado", "entregado", "cancelado"}

\* The JWT claims of the caller: rol and almacen_id.
Actores == {[rol |-> "admin", almacen_id |-> NoId],
            [rol |-> "usuario", almacen_id |-> 1]}

\* The callers of the routes that take the id of a row: an admin, or the
\* user of any warehouse.
Llamadores == Actores \cup [rol : {"usuario"}, almacen_id : Almacenes]

VARIABLES
    inventario,     \* [almacen, presentacion] -> row of table inventario
    ventas,         \* id -> row of table ventas
    movimientos,    \* rows of table movimientos, in id order
    pedidos,        \* id -> row of table pedidos (with its pedido_detalles)
    pagos,          \* id -> row of table pagos
    seqVenta,       \* last value of the ventas id sequence
    seqPedido,      \* last value of the pedidos id sequence
    seqPago,        \* last value of the pagos id sequence
    req,            \* the request being served, op "" when there is none
    resp,           \* the response of its handler, op "" before it has run
    antes,          \* the sale created last and inventario as it was before,
                    \* while nothing else has changed inventario since
    hilos,          \* worker -> the request it serves concurrently with the
                    \* other workers, and how far its handler has run
    objetos,        \* key -> whether the object storage still holds the
                    \* object save_file stored under that key
    depositos       \* rows of table depositos_bancarios, in id order

vars == <<inventario, ventas, movimientos, pedidos, pagos,
          seqVenta, seqPedido, seqPago, req, resp, antes, hilos,
          objetos, depositos>>

(***************************************************************************)
(* Table inventario: unique on (presentacion_id, almacen_id).              *)
(***************************************************************************)
SinInventario == [existe |-> FALSE, cantidad |-> 0, lote_id |-> NoId, stock_minimo |-> 0]

FilaInventario(cantidad, lote_id) ==
    [existe |-> TRUE, cantidad |-> cantidad, lote_id |-> lote_id,
     stock_minimo |-> StockMinimoDefault]

(***************************************************************************)
(* Pure helpers.                                                           *)
(***************************************************************************)
Abs(x) == IF x < 0 THEN -x ELSE x

DigitChar == <<"0", "1", "2", "3", "4", "5", "6", "7", "8", "9">>

RECURSIVE Str(_)
\* str(n) of a non-negative integer, as its decimal digits
Str(n) == IF n < 10 THEN <<DigitChar[n + 1]>>
          ELSE Str(n \div 10) \o <<DigitChar[(n % 10) + 1]>>

IsPrefix(p, s) == Len(p) <= Len(s) /\ SubSeq(s, 1, Len(p)) = p

\* motivo of a Movimiento of a sale: f"Venta ID: {id} - Cliente: ...".
\* id_txt is str(id): the digits of the id, or "None" when the Venta was not
\* flushed when the text was formatted.
MotivoVenta(id_txt) == [clave |-> "Venta ID: ", id_txt |-> id_txt]

TxtNone == <<"N", "o", "n", "e">>

\* Movimiento.motivo.like(f"Venta ID: {venta_id}%"): the motivo starts with
\* "Venta ID: " followed by the digits of venta_id; what follows id_txt in a
\* motivo is " - Cliente", which no digit matches.
MotivoLike(venta_id, motivo) ==
    motivo.clave = "Venta ID: " /\ IsPrefix(Str(venta_id), motivo.id_txt)

(***************************************************************************)
(* Request payloads.                                                       *)
(***************************************************************************)
Linea == [presentacion_id : Presentaciones, cantidad : 1..MaxCantidad]

Detalles == UNION {[1..n -> Linea] : n \in 0..MaxLineas}

\* What the model keeps of a response: the handler, the HTTP status, the kind
\* of error ("" on success) and the detail the error or the result carries.
Respuesta(op, status, error, data) ==
    [op |-> op, status |-> status, error |-> error, data |-> data]

SinDatos == <<>>

SinRespuesta == Respuesta("", 0, "", SinDatos)

SinPeticion == [op |-> ""]

\* The handler of op runs on a request that was dispatched and not answered.
Atiende(op) == req.op = op /\ resp.op = ""

\* The workers of the web server that serve requests at the same time.
Hilos == {1, 2}

\* A worker that has no request.
HiloLibre == [fase |-> "libre"]

HilosLibres == [h \in Hilos |-> HiloLibre]

\* antes when a request other than the creation of a sale changed inventario.
SinAntes(inv) == [venta_id |-> NoId, inventario |-> inv]

(***************************************************************************)
(* A request arrives at one of the routes; the request context ends after  *)
(* the response, and the scoped session is removed with it.                *)
(***************************************************************************)
Recibir(peticiones) ==
    /\ req.op = ""
    /\ \E r \in peticiones : req' = r
    /\ UNCHANGED <<inventario, ventas, movimientos, pedidos, pagos,
                   seqVenta, seqPedido, seqPago, resp, antes, hilos, objetos, depositos>>

Teardown ==
    /\ req.op # ""
    /\ resp.op # ""
    /\ req' = SinPeticion
    /\ resp' = SinRespuesta
    /\ UNCHANGED <<inventario, ventas, movimientos, pedidos, pagos,
                   seqVenta, seqPedido, seqPago, antes, hilos, objetos, depositos>>

(***************************************************************************)
(* mismo_almacen_o_admin on a POST/PUT whose JSON body names almacen_id.   *)
(***************************************************************************)
AlmacenPermitido(actor, almacen_id) ==
    actor.rol = "admin" \/ almacen_id = actor.almacen_id

(***************************************************************************)
(* VentaResource.post                                                      *)
(***************************************************************************)
\* The check of one line against the pre-loaded inventory of the warehouse:
\* if not inventario or inventario.cantidad < detalle.cantidad
LineaSinStock(inv, almacen_id, d) ==
    LET i == inv[almacen_id, d.presentacion_id]
    IN  ~i.existe \/ i.cantidad < d.cantidad

\* LineasSinStock with the loop leaving after its first pass: only the first
\* line is checked.
LineasSinStockPrimera(inv, almacen_id, detalles) ==
    {k \in 1..Len(detalles) : k = 1 /\ LineaSinStock(inv, almacen_id, detalles[k])}

\* The lines that fail the check, by position.
LineasSinStock(inv, almacen_id, detalles) ==
    {k \in 1..Len(detalles) : LineaSinStock(inv, almacen_id, detalles[k])}

Primero(S) == CHOOSE k \in S : \A j \in S : k <= j

Disponible(inv, almacen_id, p) ==
    IF inv[almacen_id, p].existe THEN inv[almacen_id, p].cantidad ELSE 0

\* movimientos.append({...}) per line, then Movimiento(tipo='salida', ...).
MovimientosVenta(inv, almacen_id, detalles, id_txt) ==
    [k \in 1..Len(detalles) |->
        [tipo |-> "salida",
         presentacion_id |-> detalles[k].presentacion_id,
         lote_id |-> inv[almacen_id, detalles[k].presentacion_id].lote_id,
         cantidad |-> detalles[k].cantidad,
         motivo |-> MotivoVenta(id_txt)]]

\* inventarios_a_actualizar[presentacion.id] = (inventario, detalle.cantidad):
\* a dict keyed by the presentation, so a later line of the same presentation
\* replaces the earlier one.
CantidadADescontar(detalles, p) ==
    LET ks == {k \in 1..Len(detalles) : detalles[k].presentacion_id = p}
    IN  IF ks = {} THEN 0
        ELSE detalles[CHOOSE k \in ks : \A j \in ks : j <= k].cantidad

\* for inventario, cantidad in inventarios_a_actualizar.values():
\*     inventario.cantidad -= cantidad
DescontarVenta(inv, almacen_id, detalles) ==
    [a \in Almacenes, p \in Presentaciones |->
        IF a = almacen_id /\ CantidadADescontar(detalles, p) # 0
        THEN [inv[a, p] EXCEPT !.cantidad = @ - CantidadADescontar(detalles, p)]
        ELSE inv[a, p]]

LineaTotal(d) == d.cantidad * PrecioVenta(d.presentacion_id)

RECURSIVE TotalVenta(_)
\* total += detalle.cantidad * detalle.precio_unitario
TotalVenta(detalles) ==
    IF detalles = <<>> THEN 0
    ELSE LineaTotal(Head(detalles)) + TotalVenta(Tail(detalles))

NuevaVenta(almacen_id, detalles) ==
    [almacen_id |-> almacen_id, total |-> TotalVenta(detalles),
     estado_pago |-> "pendiente", detalles |-> detalles]

Insertar(tabla, id, fila) ==
    [k \in DOMAIN tabla \cup {id} |-> IF k = id THEN fila ELSE tabla[k]]

Borrar(tabla, ids) == [k \in DOMAIN tabla \ ids |-> tabla[k]]

\* consumo: consumo_diario_kg of the request: 0 when absent, else its sign.
PeticionVentaPost ==
    [op : {"venta_post"}, actor : Actores, almacen_id : Almacenes,
     detalles : Detalles, consumo : {-1, 0}]

VentaPost ==
    LET id == seqVenta + 1
        almacen_id == req.almacen_id
        detalles == req.detalles
        cortas == LineasSinStock(inventario, almacen_id, detalles)
    IN
    /\ Atiende("venta_post")
    /\ IF ~AlmacenPermitido(req.actor, almacen_id)
       THEN /\ resp' = Respuesta("venta_post", 403, "acceso_denegado", SinDatos)
            /\ UNCHANGED <<inventario, ventas, movimientos, seqVenta, antes>>
       ELSE IF detalles = <<>>
       THEN /\ resp' = Respuesta("venta_post", 400, "sin_detalles", SinDatos)
            /\ UNCHANGED <<inventario, ventas, movimientos, seqVenta, antes>>
       ELSE IF cortas # {}
       THEN \* the loop returns at the first line that fails
            /\ resp' = Respuesta("venta_post", 400, "stock_insuficiente",
                    [linea |-> Primero(cortas)])
            /\ UNCHANGED <<inventario, ventas, movimientos, seqVenta, antes>>
       ELSE IF req.consumo < 0
       THEN \* flush() took an id, then ValueError: rollback
            /\ seqVenta' = id
            /\ resp' = Respuesta("venta_post", 500, "consumo_diario", SinDatos)
            /\ UNCHANGED <<inventario, ventas, movimientos, antes>>
       ELSE /\ seqVenta' = id
            /\ ventas' = Insertar(ventas, id, NuevaVenta(almacen_id, detalles))
            /\ movimientos' = movimientos \o
                    MovimientosVenta(inventario, almacen_id, detalles, Str(id))
            /\ inventario' = DescontarVenta(inventario, almacen_id, detalles)
            /\ antes' = [venta_id |-> id, inventario |-> inventario]
            /\ resp' = Respuesta("venta_post", 201, "", [venta_id |-> id])
    /\ UNCHANGED <<pedidos, pagos, seqPedido, seqPago, req,
                   hilos, objetos, depositos>>

(***************************************************************************)
(* VentaResource.delete                                                    *)
(***************************************************************************)
\* for movimiento in movimientos: the Inventario of the movement's
\* presentation in the sale's warehouse, if any, gets the quantity back.
RECURSIVE RevertirMovimientos(_, _, _)
RevertirMovimientos(inv, almacen_id, movs) ==
    IF movs = <<>> THEN inv
    ELSE LET m == Head(movs)
             inv2 == IF inv[almacen_id, m.presentacion_id].existe
                     THEN [inv EXCEPT ![almacen_id, m.presentacion_id].cantidad =
                                            @ + m.cantidad]
                     ELSE inv
         IN  RevertirMovimientos(inv2, almacen_id, Tail(movs))

\* Movimiento.query.filter(Movimiento.motivo.like(f"Venta ID: {venta_id}%"))
MovimientosDeVenta(movs, venta_id) ==
    SelectSeq(movs, LAMBDA m : MotivoLike(venta_id, m.motivo))

OtrosMovimientos(movs, venta_id) ==
    SelectSeq(movs, LAMBDA m : ~MotivoLike(venta_id, m.motivo))

PeticionVentaDelete ==
    [op : {"venta_delete"}, actor : Llamadores, venta_id : 1..MaxVentas]

\* mismo_almacen_o_admin finds no almacen_id among the arguments of the route
\* and reads the JSON body of a POST or PUT only: it lets every caller in.
VentaDelete ==
    LET venta_id == req.venta_id IN
    /\ Atiende("venta_delete")
    /\ IF venta_id \notin DOMAIN ventas
       THEN /\ resp' = Respuesta("venta_delete", 404, "not_found", SinDatos)
            /\ UNCHANGED <<inventario, ventas, movimientos, pagos, antes>>
       ELSE /\ inventario' = RevertirMovimientos(inventario,
                                    ventas[venta_id].almacen_id,
                                    MovimientosDeVenta(movimientos, venta_id))
            /\ movimientos' = OtrosMovimientos(movimientos, venta_id)
            /\ ventas' = Borrar(ventas, {venta_id})
            \* cascade="all, delete-orphan" on Venta.pagos
            /\ pagos' = Borrar(pagos, {q \in DOMAIN pagos : pagos[q].venta_id = venta_id})
            /\ antes' = SinAntes(inventario')
            /\ resp' = Respuesta("venta_delete", 200, "", [venta_id |-> venta_id])
    /\ UNCHANGED <<pedidos, seqVenta, seqPedido, seqPago, req,
                   hilos, objetos, depositos>>

(***************************************************************************)
(* VentaResource.put                                                       *)
(***************************************************************************)
\* The line lists of at most one line.
DetallesCortos == {d \in Detalles : Len(d) <= 1}

\* campos: the keys of the JSON body among "detalles" and "almacen_id".  A
\* key that is absent carries <<>> or NoId.
PeticionVentaPut ==
    {r \in [op : {"venta_put"}, actor : Llamadores, venta_id : 1..MaxVentas,
            campos : SUBSET {"detalles", "almacen_id"},
            detalles : DetallesCortos, almacen_id : Almacenes \cup {NoId}] :
        /\ ("detalles" \notin r.campos => r.detalles = <<>>)
        /\ ("almacen_id" \in r.campos <=> r.almacen_id # NoId)}

\* str(raw_data["detalles"]): the text of a list of dicts, one per line.
StrDetallesJson(detalles) ==
    [k \in 1..Len(detalles) |->
        [tipo |-> "dict", a |-> detalles[k].presentacion_id,
         b |-> detalles[k].cantidad]]

\* str(venta.detalles): the text of a list of VentaDetalle rows; the class
\* has no __repr__, a row prints as its class name and its identity.
StrDetallesFilas(detalles) ==
    [k \in 1..Len(detalles) |-> [tipo |-> "VentaDetalle", a |-> k, b |-> 0]]

\* The loop over immutable_fields = ["detalles"] alone.
CampoInmutableSinAlmacen(r, venta) ==
    IF "detalles" \in r.campos
          /\ StrDetallesJson(r.detalles) # StrDetallesFilas(venta.detalles)
    THEN "detalles"
    ELSE ""

\* if field in raw_data and str(raw_data[field]) != str(getattr(venta, field))
CampoInmutableCambiado(r, venta) ==
    IF "detalles" \in r.campos
          /\ StrDetallesJson(r.detalles) # StrDetallesFilas(venta.detalles)
    THEN "detalles"
    ELSE IF "almacen_id" \in r.campos /\ r.almacen_id # venta.almacen_id
    THEN "almacen_id"
    ELSE ""

\* venta_schema.load(raw_data, instance=venta, partial=True): the keys of the
\* body are set on the row.  The detalles of a body that passed the loop are
\* the empty list.
CargarVenta(r, venta) ==
    LET v1 == IF "almacen_id" \in r.campos
              THEN [venta EXCEPT !.almacen_id = r.almacen_id] ELSE venta
    IN  IF "detalles" \in r.campos THEN [v1 EXCEPT !.detalles = r.detalles] ELSE v1

VentaPut ==
    LET venta_id == req.venta_id IN
    /\ Atiende("venta_put")
    /\ IF /\ req.actor.rol # "admin"
          /\ "almacen_id" \in req.campos
          /\ req.almacen_id # req.actor.almacen_id
       THEN \* mismo_almacen_o_admin on the almacen_id of the JSON body
            /\ resp' = Respuesta("venta_put", 403, "acceso_denegado", SinDatos)
            /\ UNCHANGED ventas
       ELSE IF venta_id \notin DOMAIN ventas
       THEN /\ resp' = Respuesta("venta_put", 404, "not_found", SinDatos)
            /\ UNCHANGED ventas
       ELSE IF CampoInmutableCambiado(req, ventas[venta_id]) # ""
       THEN /\ resp' = Respuesta("venta_put", 400, "campo_inmutable",
                                 [campo |-> CampoInmutableCambiado(req, ventas[venta_id])])
            /\ UNCHANGED ventas
       ELSE \* the schema accepts the body or raises ValidationError
            \/ /\ ventas' = [ventas EXCEPT ![venta_id] = CargarVenta(req, @)]
               /\ resp' = Respuesta("venta_put", 200, "", [venta_id |-> venta_id])
            \/ /\ resp' = Respuesta("venta_put", 400, "datos_invalidos", SinDatos)
               /\ UNCHANGED ventas
    /\ UNCHANGED <<inventario, movimientos, pedidos, pagos, seqVenta, seqPedido,
                   seqPago, req, antes, hilos, objetos, depositos>>

(***************************************************************************)
(* PedidoResource.post / put / delete                                      *)
(***************************************************************************)
PeticionPedidoPost ==
    [op : {"pedido_post"}, actor : Actores, almacen_id : Almacenes,
     detalles : Detalles]

PedidoPost ==
    LET id == seqPedido + 1 IN
    /\ Atiende("pedido_post")
    /\ IF ~AlmacenPermitido(req.actor, req.almacen_id)
       THEN /\ resp' = Respuesta("pedido_post", 403, "acceso_denegado", SinDatos)
            /\ UNCHANGED <<pedidos, seqPedido>>
       ELSE /\ seqPedido' = id
            /\ pedidos' = Insertar(pedidos, id,
                    [almacen_id |-> req.almacen_id, estado |-> "programado",
                     detalles |-> req.detalles])
            /\ resp' = Respuesta("pedido_post", 201, "", [pedido_id |-> id])
    /\ UNCHANGED <<inventario, ventas, movimientos, pagos,
                   seqVenta, seqPago, req, hilos, objetos, depositos, antes>>

\* pedido_schema.load(request.get_json(), instance=pedido, partial=True): the
\* fields of the body are set on the row.  The body of the model names estado.
PedidoSchemaLoad(pedido, data) == [pedido EXCEPT !.estado = data.estado]

PeticionPedidoPut ==
    [op : {"pedido_put"}, pedido_id : 1..MaxPedidos, data : [estado : EstadosPedido]]

PedidoPut ==
    LET pedido_id == req.pedido_id IN
    /\ Atiende("pedido_put")
    /\ IF pedido_id \notin DOMAIN pedidos
       THEN /\ resp' = Respuesta("pedido_put", 404, "not_found", SinDatos)
            /\ UNCHANGED pedidos
       ELSE IF pedidos[pedido_id].estado = "entregado"
       THEN /\ resp' = Respuesta("pedido_put", 400, "ya_entregado", SinDatos)
            /\ UNCHANGED pedidos
       ELSE /\ pedidos' = [pedidos EXCEPT ![pedido_id] = PedidoSchemaLoad(@, req.data)]
            /\ resp' = Respuesta("pedido_put", 200, "", [pedido_id |-> pedido_id])
    /\ UNCHANGED <<inventario, ventas, movimientos, pagos,
                   seqVenta, seqPedido, seqPago, req, hilos, objetos, depositos, antes>>

PeticionPedidoDelete == [op : {"pedido_delete"}, pedido_id : 1..MaxPedidos]

PedidoDelete ==
    LET pedido_id == req.pedido_id IN
    /\ Atiende("pedido_delete")
    /\ IF pedido_id \notin DOMAIN pedidos
       THEN /\ resp' = Respuesta("pedido_delete", 404, "not_found", SinDatos)
            /\ UNCHANGED pedidos
       ELSE IF pedidos[pedido_id].estado = "entregado"
       THEN /\ resp' = Respuesta("pedido_delete", 400, "ya_entregado", SinDatos)
            /\ UNCHANGED pedidos
       ELSE /\ pedidos' = Borrar(pedidos, {pedido_id})
            /\ resp' = Respuesta("pedido_delete", 200, "", [pedido_id |-> pedido_id])
    /\ UNCHANGED <<inventario, ventas, movimientos, pagos,
                   seqVenta, seqPedido, seqPago, req, hilos, objetos, depositos, antes>>

(***************************************************************************)
(* PedidoConversionResource.post                                           *)
(***************************************************************************)
\* Insuficientes with the loop leaving after its first pass: only the first
\* line is checked.
InsuficientesPrimera(inv, almacen_id, detalles) ==
    IF detalles # <<>> /\ LineaSinStock(inv, almacen_id, Head(detalles))
    THEN <<[presentacion |-> Head(detalles).presentacion_id,
            solicitado |-> Head(detalles).cantidad,
            disponible |-> Disponible(inv, almacen_id,
                                      Head(detalles).presentacion_id)]>>
    ELSE <<>>

\* inventarios_insuficientes: one entry per line that fails the check, in
\* the order of the lines.
RECURSIVE Insuficientes(_, _, _)
Insuficientes(inv, almacen_id, detalles) ==
    IF detalles = <<>> THEN <<>>
    ELSE LET d == Head(detalles)
             resto == Insuficientes(inv, almacen_id, Tail(detalles))
         IN  IF LineaSinStock(inv, almacen_id, d)
             THEN <<[presentacion |-> d.presentacion_id,
                     solicitado |-> d.cantidad,
                     disponible |-> Disponible(inv, almacen_id, d.presentacion_id)]>>
                  \o resto
             ELSE resto

\* for detalle in venta.detalles: inventario.cantidad -= detalle.cantidad,
\* on the row Inventario.query.filter_by(...).first() returns for the line.
RECURSIVE DescontarPedido(_, _, _)
DescontarPedido(inv, almacen_id, detalles) ==
    IF detalles = <<>> THEN inv
    ELSE DescontarPedido(
            [inv EXCEPT ![almacen_id, Head(detalles).presentacion_id].cantidad =
                            @ - Head(detalles).cantidad],
            almacen_id, Tail(detalles))

PeticionPedidoConvert ==
    [op : {"pedido_convert"}, actor : Llamadores, pedido_id : 1..MaxPedidos]

\* The body of the request names tipo_pago and usar_precio_actual, not
\* almacen_id: mismo_almacen_o_admin lets every caller in.
PedidoConvert ==
    LET pedido_id == req.pedido_id IN
    /\ Atiende("pedido_convert")
    /\ IF pedido_id \notin DOMAIN pedidos
       THEN /\ resp' = Respuesta("pedido_convert", 404, "not_found", SinDatos)
            /\ UNCHANGED <<inventario, ventas, movimientos, pedidos, seqVenta, antes>>
       ELSE LET pedido == pedidos[pedido_id]
                id == seqVenta + 1
                faltan == Insuficientes(inventario, pedido.almacen_id, pedido.detalles)
            IN
            IF pedido.estado = "entregado"
            THEN /\ resp' = Respuesta("pedido_convert", 400, "ya_entregado", SinDatos)
                 /\ UNCHANGED <<inventario, ventas, movimientos, pedidos, seqVenta, antes>>
            ELSE IF pedido.estado = "cancelado"
            THEN /\ resp' = Respuesta("pedido_convert", 400, "cancelado", SinDatos)
                 /\ UNCHANGED <<inventario, ventas, movimientos, pedidos, seqVenta, antes>>
            ELSE IF pedido.detalles = <<>>
            THEN /\ resp' = Respuesta("pedido_convert", 400, "sin_detalles", SinDatos)
                 /\ UNCHANGED <<inventario, ventas, movimientos, pedidos, seqVenta, antes>>
            ELSE IF faltan # <<>>
            THEN /\ resp' = Respuesta("pedido_convert", 400, "stock_insuficiente", faltan)
                 /\ UNCHANGED <<inventario, ventas, movimientos, pedidos, seqVenta, antes>>
            ELSE /\ seqVenta' = id
                 /\ ventas' = Insertar(ventas, id,
                                NuevaVenta(pedido.almacen_id, pedido.detalles))
                 /\ inventario' = DescontarPedido(inventario, pedido.almacen_id,
                                                  pedido.detalles)
                 \* motivo is formatted before the Venta is added and flushed:
                 \* venta.id is None
                 /\ movimientos' = movimientos \o
                        MovimientosVenta(inventario, pedido.almacen_id,
                                         pedido.detalles, TxtNone)
                 /\ pedidos' = [pedidos EXCEPT ![pedido_id].estado = "entregado"]
                 /\ antes' = [venta_id |-> id, inventario |-> inventario]
                 /\ resp' = Respuesta("pedido_convert", 201, "",
                                [venta_id |-> id, pedido_id |-> pedido_id])
    /\ UNCHANGED <<pagos, seqPedido, seqPago, req,
                   hilos, objetos, depositos>>

(***************************************************************************)
(* TransferenciaService / TransferenciaInventarioResource.post             *)
(***************************************************************************)
TransferLinea == [presentacion_id : Presentaciones,
                  lote_id : Lotes \cup {NoId},
                  cantidad : 0..MaxCantidad]

Transferencias == UNION {[1..n -> TransferLinea] : n \in 0..MaxLineas}

\* _validar_y_preparar_datos: the lines whose cantidad is not positive.
LineasMalFormadas(ts) == {k \in 1..Len(ts) : ts[k].cantidad <= 0}

\* _obtener_inventarios(...).get((presentacion_id, lote_id)): the row of the
\* warehouse for the presentation, when it carries the lot of the line.
InventarioPorClave(inv, almacen_id, t) ==
    IF inv[almacen_id, t.presentacion_id].existe
       /\ inv[almacen_id, t.presentacion_id].lote_id = t.lote_id
    THEN inv[almacen_id, t.presentacion_id]
    ELSE SinInventario

\* _validar_stock: if not inv_origen or inv_origen.cantidad < cantidad
TransferSinStock(inv, origen, t) ==
    LET i == InventarioPorClave(inv, origen, t)
    IN  ~i.existe \/ i.cantidad < t.cantidad

LineasTransferSinStock(inv, origen, ts) ==
    {k \in 1..Len(ts) : TransferSinStock(inv, origen, ts[k])}

\* The attributes of class Movimiento: its columns, relationships and
\* properties.  The declarative constructor raises TypeError for any other
\* keyword.
MovimientoAtributos ==
    {"id", "tipo", "presentacion_id", "presentacion", "lote_id", "lote",
     "usuario_id", "usuario", "cantidad", "fecha", "motivo", "created_at",
     "updated_at", "total_kg"}

\* Movimiento(tipo=..., motivo=..., **transfer, usuario_id=...,
\*            tipo_operacion='transferencia', fecha=...)
KwargsMovimientoTransferencia ==
    {"tipo", "motivo", "presentacion_id", "lote_id", "cantidad", "usuario_id",
     "tipo_operacion", "fecha"}

ConstructorAcepta(atributos, kwargs) == kwargs \subseteq atributos

\* One pass of the loop of _actualizar_inventarios_y_crear_movimientos over
\* the session: inv0 is the inventory the two dictionaries were built from.
\* ok turns FALSE when a second row for (presentacion_id, almacen_id) is added,
\* which uq_inventario_compuesto refuses at the flush.
RECURSIVE AplicarTransferencias(_, _, _, _, _)
AplicarTransferencias(ses, inv0, origen, destino, ts) ==
    IF ts = <<>> THEN ses
    ELSE LET t == Head(ts)
             p == t.presentacion_id
             enDestino == InventarioPorClave(inv0, destino, t).existe
             inv1 == [ses.inv EXCEPT ![origen, p].cantidad = @ - t.cantidad]
             inv2 == IF enDestino
                     THEN [inv1 EXCEPT ![destino, p].cantidad = @ + t.cantidad]
                     ELSE [inv1 EXCEPT ![destino, p] =
                            [existe |-> TRUE, cantidad |-> t.cantidad,
                             lote_id |-> t.lote_id,
                             stock_minimo |-> inv1[origen, p].stock_minimo]]
             par == <<[tipo |-> "salida", presentacion_id |-> p,
                       lote_id |-> t.lote_id, cantidad |-> t.cantidad,
                       motivo |-> [clave |-> "Transferencia a ",
                                   id_txt |-> <<>>]],
                      [tipo |-> "entrada", presentacion_id |-> p,
                       lote_id |-> t.lote_id, cantidad |-> t.cantidad,
                       motivo |-> [clave |-> "Transferencia desde ",
                                   id_txt |-> <<>>]]>>
         IN  AplicarTransferencias(
                [inv |-> inv2,
                 movs |-> ses.movs \o par,
                 ok |-> ses.ok /\ (enDestino \/ ~ses.inv[destino, p].existe)],
                inv0, origen, destino, Tail(ts))

PeticionTransfer ==
    [op : {"transfer_post"}, origen : Almacenes, destino : Almacenes,
     ts : Transferencias]

\* TransferPost with the checks of a line made as the line is applied and no
\* rollback: the lines before the one that fails stay debited and credited.
TransferPostPorLinea ==
    LET origen == req.origen
        destino == req.destino
        ts == req.ts
        malas == LineasMalFormadas(ts) \cup
                    LineasTransferSinStock(inventario, origen, ts)
        previas == AplicarTransferencias(
                        [inv |-> inventario, movs |-> <<>>, ok |-> TRUE],
                        inventario, origen, destino,
                        SubSeq(ts, 1, Primero(malas) - 1))
    IN
    /\ Atiende("transfer_post")
    /\ IF origen = destino
       THEN /\ resp' = Respuesta("transfer_post", 400, "mismo_almacen", SinDatos)
            /\ UNCHANGED <<inventario, movimientos, antes>>
       ELSE IF malas # {}
       THEN /\ resp' = Respuesta("transfer_post", 400, "stock_insuficiente",
                                 [linea |-> Primero(malas)])
            /\ inventario' = previas.inv
            /\ movimientos' = movimientos \o previas.movs
            /\ antes' = SinAntes(inventario')
       ELSE /\ resp' = Respuesta("transfer_post", 500, "error_interno", SinDatos)
            /\ UNCHANGED <<inventario, movimientos, antes>>
    /\ UNCHANGED <<ventas, pedidos, pagos, seqVenta, seqPedido, seqPago, req,
                   hilos, objetos, depositos>>

TransferPost ==
    LET origen == req.origen
        destino == req.destino
        ts == req.ts
        mal == LineasMalFormadas(ts)
        cortas == LineasTransferSinStock(inventario, origen, ts)
        ses == AplicarTransferencias(
                    [inv |-> inventario, movs |-> <<>>, ok |-> TRUE],
                    inventario, origen, destino, ts)
    IN
    /\ Atiende("transfer_post")
    /\ IF origen = destino
       THEN /\ resp' = Respuesta("transfer_post", 400, "mismo_almacen", SinDatos)
            /\ UNCHANGED <<inventario, movimientos, antes>>
       ELSE IF mal # {}
       THEN /\ resp' = Respuesta("transfer_post", 400, "formato",
                                 [linea |-> Primero(mal)])
            /\ UNCHANGED <<inventario, movimientos, antes>>
       ELSE IF cortas # {}
       THEN /\ resp' = Respuesta("transfer_post", 400, "stock_insuficiente",
                                 [linea |-> Primero(cortas)])
            /\ UNCHANGED <<inventario, movimientos, antes>>
       ELSE IF ts # <<>> /\ ~ConstructorAcepta(MovimientoAtributos,
                                               KwargsMovimientoTransferencia)
       THEN \* TypeError in the first pass of the loop: rollback
            /\ resp' = Respuesta("transfer_post", 500, "error_interno", SinDatos)
            /\ UNCHANGED <<inventario, movimientos, antes>>
       ELSE IF ~ses.ok
       THEN \* IntegrityError at the commit: rollback
            /\ resp' = Respuesta("transfer_post", 500, "error_interno", SinDatos)
            /\ UNCHANGED <<inventario, movimientos, antes>>
       ELSE /\ inventario' = ses.inv
            /\ movimientos' = movimientos \o ses.movs
            /\ antes' = SinAntes(inventario')
            /\ resp' = Respuesta("transfer_post", 200, "", [total |-> Len(ts)])
    /\ UNCHANGED <<ventas, pedidos, pagos, seqVenta, seqPedido, seqPago, req,
                   hilos, objetos, depositos>>

(***************************************************************************)
(* The stock ledger: sales, orders and transfers over a stocked warehouse. *)
(***************************************************************************)
InventarioInicial ==
    [a \in Almacenes, p \in Presentaciones |->
        IF a = 1 /\ p = 1 THEN FilaInventario(StockInicial, 1)
        ELSE IF a = 1 /\ p = 2 THEN FilaInventario(1, NoId)
        ELSE SinInventario]

TablaVacia == [k \in {} |-> k]

InitInv ==
    /\ inventario = InventarioInicial
    /\ ventas = TablaVacia
    /\ movimientos = <<>>
    /\ pedidos = TablaVacia
    /\ pagos = TablaVacia
    /\ seqVenta = 0
    /\ seqPedido = 0
    /\ seqPago = 0
    /\ req = SinPeticion
    /\ resp = SinRespuesta
    /\ antes = SinAntes(InventarioInicial)
    /\ hilos = HilosLibres
    /\ objetos = <<>>
    /\ depositos = <<>>

\* The id sequences are capped: a request that would take an id past the cap
\* is not dispatched.
PeticionesVentas ==
    {r \in PeticionVentaPost : seqVenta < MaxVentas} \cup PeticionVentaDelete

NextVentas ==
    \/ Recibir(PeticionesVentas)
    \/ VentaPost
    \/ VentaDelete
    \/ Teardown

SpecVentas == InitInv /\ [][NextVentas]_vars

(***************************************************************************)
(* Sales created by an admin, then updated by any caller.                  *)
(***************************************************************************)
PeticionesVentaPut ==
    {r \in PeticionVentaPost :
        /\ seqVenta < MaxVentas
        /\ r.actor.rol = "admin" /\ r.consumo = 0
        /\ r.detalles \in DetallesCortos}
    \cup PeticionVentaPut

NextVentaPut ==
    \/ Recibir(PeticionesVentaPut)
    \/ VentaPost
    \/ VentaPut
    \/ Teardown

SpecVentaPut == InitInv /\ [][NextVentaPut]_vars

(***************************************************************************)
(* A long run of the ventas id sequence: the sale of id 1, then creations  *)
(* that take an id and roll back (consumo_diario_kg < 0), then the sale    *)
(* whose id has two digits.                                                *)
(***************************************************************************)
PeticionVentaDeleteLarga ==
    [op : {"venta_delete"}, actor : {[rol |-> "admin", almacen_id |-> NoId]},
     venta_id : {1, MaxIdVenta}]

PeticionesIdsLargos ==
    {r \in PeticionVentaPost :
        /\ seqVenta < MaxIdVenta
        /\ r.actor.rol = "admin"
        /\ r.detalles \in DetallesCortos
        /\ r.consumo = (IF seqVenta \in {0, MaxIdVenta - 1} THEN 0 ELSE -1)
        /\ seqVenta \in 1..(MaxIdVenta - 2)
                => /\ r.almacen_id = 1
                   /\ r.detalles = <<[presentacion_id |-> 1, cantidad |-> 1]>>}
    \cup PeticionVentaDeleteLarga

NextIdsLargos ==
    \/ Recibir(PeticionesIdsLargos)
    \/ VentaPost
    \/ VentaDelete
    \/ Teardown

SpecIdsLargos == InitInv /\ [][NextIdsLargos]_vars

(***************************************************************************)
(* Sale creations served by two workers at the same time.  Each worker     *)
(* runs VentaResource.post in its own session and transaction: the SELECT  *)
(* of the inventory rows and the validation loop, then the flush and the   *)
(* commit, which writes the quantities the session computed from the rows  *)
(* it loaded.  Another worker may commit between the two.                  *)
(***************************************************************************)
HiloRecibe(h, peticiones) ==
    /\ hilos[h].fase = "libre"
    /\ \E r \in peticiones :
            hilos' = [hilos EXCEPT ![h] = [fase |-> "recibido", req |-> r]]
    /\ UNCHANGED <<inventario, ventas, movimientos, pedidos, pagos,
                   seqVenta, seqPedido, seqPago, req, resp, antes,
                   objetos, depositos>>

HiloHecho(r, status, error) ==
    [fase |-> "hecho", req |-> r, status |-> status, error |-> error]

\* Lines 106-157: the rows of the warehouse are loaded and every line is
\* checked against them.
HiloVentaLee(h) ==
    LET r == hilos[h].req IN
    /\ hilos[h].fase = "recibido"
    /\ r.op = "venta_post"
    /\ hilos' = [hilos EXCEPT ![h] =
            IF ~AlmacenPermitido(r.actor, r.almacen_id)
            THEN HiloHecho(r, 403, "acceso_denegado")
            ELSE IF r.detalles = <<>>
            THEN HiloHecho(r, 400, "sin_detalles")
            ELSE IF LineasSinStock(inventario, r.almacen_id, r.detalles) # {}
            THEN HiloHecho(r, 400, "stock_insuficiente")
            ELSE [fase |-> "leido", req |-> r, leido |-> inventario]]
    /\ UNCHANGED <<inventario, ventas, movimientos, pedidos, pagos,
                   seqVenta, seqPedido, seqPago, req, resp, antes,
                   objetos, depositos>>

\* inventario.cantidad -= cantidad on the objects of the session, flushed at
\* the commit as UPDATE inventario SET cantidad = <value computed>: the rows
\* of the dict get the quantity that was loaded minus the line's quantity.
EscribirDescuento(inv, leido, almacen_id, detalles) ==
    [a \in Almacenes, p \in Presentaciones |->
        IF a = almacen_id /\ CantidadADescontar(detalles, p) # 0
        THEN [inv[a, p] EXCEPT !.cantidad =
                leido[a, p].cantidad - CantidadADescontar(detalles, p)]
        ELSE inv[a, p]]

\* HiloVentaEscribe debiting with UPDATE inventario SET cantidad = cantidad -
\* :q WHERE cantidad >= :q: a row that no longer holds the quantity makes the
\* request fail, and the debit applies to what the row holds at the commit.
HiloVentaEscribeCondicional(h) ==
    LET r == hilos[h].req
        id == seqVenta + 1
    IN
    /\ hilos[h].fase = "leido"
    /\ r.op = "venta_post"
    /\ seqVenta' = id
    /\ IF LineasSinStock(inventario, r.almacen_id, r.detalles) # {}
       THEN /\ hilos' = [hilos EXCEPT ![h] = HiloHecho(r, 409, "stock_insuficiente")]
            /\ UNCHANGED <<inventario, ventas, movimientos, antes>>
       ELSE /\ ventas' = Insertar(ventas, id, NuevaVenta(r.almacen_id, r.detalles))
            /\ movimientos' = movimientos \o
                    MovimientosVenta(inventario, r.almacen_id, r.detalles, Str(id))
            /\ inventario' = DescontarVenta(inventario, r.almacen_id, r.detalles)
            /\ antes' = [venta_id |-> id, inventario |-> inventario]
            /\ hilos' = [hilos EXCEPT ![h] = HiloHecho(r, 201, "")]
    /\ UNCHANGED <<pedidos, pagos, seqPedido, seqPago, req, resp,
                   objetos, depositos>>

\* Lines 159-202: the Venta is added and flushed, the movements are added,
\* the quantities are decremented on the loaded rows, and the commit writes
\* them.
HiloVentaEscribe(h) ==
    LET r == hilos[h].req
        id == seqVenta + 1
    IN
    /\ hilos[h].fase = "leido"
    /\ r.op = "venta_post"
    /\ seqVenta' = id
    /\ IF r.consumo < 0
       THEN /\ hilos' = [hilos EXCEPT ![h] = HiloHecho(r, 500, "consumo_diario")]
            /\ UNCHANGED <<inventario, ventas, movimientos, antes>>
       ELSE /\ ventas' = Insertar(ventas, id, NuevaVenta(r.almacen_id, r.detalles))
            /\ movimientos' = movimientos \o
                    MovimientosVenta(hilos[h].leido, r.almacen_id, r.detalles, Str(id))
            /\ inventario' = EscribirDescuento(inventario, hilos[h].leido,
                                               r.almacen_id, r.detalles)
            /\ antes' = [venta_id |-> id, inventario |-> inventario]
            /\ hilos' = [hilos EXCEPT ![h] = HiloHecho(r, 201, "")]
    /\ UNCHANGED <<pedidos, pagos, seqPedido, seqPago, req, resp,
                   objetos, depositos>>

\* The sale creations the two workers are given: an admin's, with no
\* consumo_diario_kg.
PeticionesCarreraVentas ==
    {r \in PeticionVentaPost : r.actor.rol = "admin" /\ r.consumo = 0}

NextCarreraVentas ==
    \/ \E h \in Hilos : HiloRecibe(h, PeticionesCarreraVentas)
    \/ \E h \in Hilos : HiloVentaLee(h)
    \/ \E h \in Hilos : HiloVentaEscribe(h)

SpecCarreraVentas == InitInv /\ [][NextCarreraVentas]_vars

PeticionesPedidos ==
    {r \in PeticionPedidoPost : seqPedido < MaxPedidos}
        \cup PeticionPedidoPut \cup PeticionPedidoDelete
        \cup {r \in PeticionPedidoConvert : seqVenta < MaxVentas}
        \cup PeticionVentaDelete

NextPedidos ==
    \/ Recibir(PeticionesPedidos)
    \/ PedidoPost
    \/ PedidoPut
    \/ PedidoDelete
    \/ PedidoConvert
    \/ VentaDelete
    \/ Teardown

SpecPedidos == InitInv /\ [][NextPedidos]_vars

(***************************************************************************)
(* Transfers, from the stocks the two warehouses may hold.                  *)
(***************************************************************************)
InitTransfer ==
    /\ \E q1 \in {1, StockInicial},
          dest \in {SinInventario, FilaInventario(1, 1)} :
            inventario = [a \in Almacenes, p \in Presentaciones |->
                            IF a = 1 /\ p = 1 THEN FilaInventario(q1, 1)
                            ELSE IF a = 1 /\ p = 2 THEN FilaInventario(1, NoId)
                            ELSE IF a = 2 /\ p = 1 THEN dest
                            ELSE SinInventario]
    /\ ventas = TablaVacia
    /\ movimientos = <<>>
    /\ pedidos = TablaVacia
    /\ pagos = TablaVacia
    /\ seqVenta = 0
    /\ seqPedido = 0
    /\ seqPago = 0
    /\ req = SinPeticion
    /\ resp = SinRespuesta
    /\ antes = SinAntes(inventario)
    /\ hilos = HilosLibres
    /\ objetos = <<>>
    /\ depositos = <<>>

NextTransfer ==
    \/ Recibir(PeticionTransfer)
    \/ TransferPost
    \/ Teardown

SpecTransfer == InitTransfer /\ [][NextTransfer]_vars

(***************************************************************************)
(* Properties of the stock ledger.                                         *)
(***************************************************************************)
\* C1: after any sequence of sale creations, sale deletions, order
\* conversions and transfers, every inventory row has a quantity >= 0.
C1_CantidadNoNegativa ==
    \A a \in Almacenes, p \in Presentaciones :
        inventario[a, p].existe => inventario[a, p].cantidad >= 0

\* C4: deleting the sale that was created last, with no other change of the
\* inventory in between, returns the inventory to what it was before the
\* creation and leaves no movement tagged with the sale.
C4_CrearYBorrarRestaura ==
    [][(/\ Atiende("venta_delete")
        /\ req.venta_id = antes.venta_id
        /\ resp'.status = 200)
       => (/\ inventario' = antes.inventario
           /\ MovimientosDeVenta(movimientos', req.venta_id) = <<>>)]_vars

\* C7: a sale creation with a line that asks for more than the inventory row
\* of the sale's warehouse holds, or that has no row, is rejected, and the
\* inventory, the sales and the movements are what they were.
C7_VentaRechazadaSinCambios ==
    [][(/\ Atiende("venta_post")
        /\ \E k \in 1..Len(req.detalles) :
                LineaSinStock(inventario, req.almacen_id, req.detalles[k]))
       => (/\ resp'.status \in {400, 403}
           /\ inventario' = inventario
           /\ ventas' = ventas
           /\ movimientos' = movimientos)]_vars

\* A sale of two lines was rejected for its second line, the first line
\* having stock.
C7_Witness ==
    /\ req.op = "venta_post"
    /\ resp.status = 400
    /\ resp.error = "stock_insuficiente"
    /\ resp.data.linea = 2
    /\ ~LineaSinStock(inventario, req.almacen_id, req.detalles[1])
    /\ LineaSinStock(inventario, req.almacen_id, req.detalles[2])

\* C8: converting an open order with a short line fails with one entry
\* {presentacion, solicitado, disponible} per short line, and the order, the
\* sales, the movements and the inventory are what they were.
C8_ConversionSinStock ==
    [][(/\ Atiende("pedido_convert")
        /\ req.pedido_id \in DOMAIN pedidos
        /\ pedidos[req.pedido_id].estado \notin {"entregado", "cancelado"}
        /\ \E k \in 1..Len(pedidos[req.pedido_id].detalles) :
                LineaSinStock(inventario, pedidos[req.pedido_id].almacen_id,
                              pedidos[req.pedido_id].detalles[k]))
       => LET ped == pedidos[req.pedido_id]
              cortas == {k \in 1..Len(ped.detalles) :
                          LineaSinStock(inventario, ped.almacen_id, ped.detalles[k])}
          IN  /\ resp'.status = 400
              /\ resp'.error = "stock_insuficiente"
              /\ Len(resp'.data) = Cardinality(cortas)
              /\ \A k \in cortas : \E i \in 1..Len(resp'.data) :
                      resp'.data[i] =
                          [presentacion |-> ped.detalles[k].presentacion_id,
                           solicitado |-> ped.detalles[k].cantidad,
                           disponible |-> Disponible(inventario, ped.almacen_id,
                                              ped.detalles[k].presentacion_id)]
              /\ pedidos' = pedidos
              /\ ventas' = ventas
              /\ movimientos' = movimientos
              /\ inventario' = inventario]_vars

\* The conversion of an order of two lines failed with one shortfall: the
\* other line had stock, and the order is still open with no sale made.
C8_Witness ==
    /\ req.op = "pedido_convert"
    /\ resp.error = "stock_insuficiente"
    /\ Len(resp.data) = 1
    /\ resp.data[1].solicitado > resp.data[1].disponible
    /\ ventas = TablaVacia
    /\ Len(pedidos[req.pedido_id].detalles) = 2
    /\ pedidos[req.pedido_id].estado = "programado"

\* C9: an order whose estado is entregado or cancelado is never changed or
\* removed by a later request.
C9_TerminalInmutable ==
    [][\A o \in DOMAIN pedidos :
        pedidos[o].estado \in {"entregado", "cancelado"}
            => (o \in DOMAIN pedidos' /\ pedidos'[o] = pedidos[o])]_vars

\* C10: a transfer with a line that fails a check (quantity not positive, no
\* origin row for its presentation and lot, origin quantity too low) is
\* rejected and changes no inventory row and adds no movement.
C10_TransferAtomica ==
    [][(/\ Atiende("transfer_post")
        /\ \E k \in 1..Len(req.ts) :
                \/ req.ts[k].cantidad <= 0
                \/ TransferSinStock(inventario, req.origen, req.ts[k]))
       => (/\ resp'.status = 400
           /\ inventario' = inventario
           /\ movimientos' = movimientos)]_vars

\* A transfer of two lines between two warehouses was rejected for its
\* second line: the first line passed every check.
C10_Witness ==
    /\ req.op = "transfer_post"
    /\ resp.status = 400
    /\ resp.error \in {"formato", "stock_insuficiente"}
    /\ resp.data.linea = 2
    /\ req.ts[1].cantidad > 0
    /\ ~TransferSinStock(inventario, req.origen, req.ts[1])

\* C11: a transfer of one line of q units between two warehouses, the origin
\* holding a row of the line's presentation and lot with at least q units,
\* succeeds: the origin row loses q, the destination row gains q (or is
\* created with q and the origin's stock_minimo), and one salida and one
\* entrada movement of q are added.
C11_TransferExitosa ==
    [][(/\ Atiende("transfer_post")
        /\ req.origen # req.destino
        /\ Len(req.ts) = 1
        /\ req.ts[1].cantidad > 0
        /\ ~TransferSinStock(inventario, req.origen, req.ts[1]))
       => LET t == req.ts[1]
              p == t.presentacion_id
              o == inventario[req.origen, p]
              d == inventario[req.destino, p]
          IN  /\ resp'.status = 200
              /\ inventario'[req.origen, p].cantidad = o.cantidad - t.cantidad
              /\ inventario'[req.destino, p].existe
              /\ inventario'[req.destino, p].cantidad =
                    (IF d.existe THEN d.cantidad ELSE 0) + t.cantidad
              /\ ~d.existe =>
                    inventario'[req.destino, p].stock_minimo = o.stock_minimo
              /\ Len(movimientos') = Len(movimientos) + 2
              /\ {movimientos'[Len(movimientos) + 1].tipo,
                  movimientos'[Len(movimientos) + 2].tipo} = {"salida", "entrada"}
              /\ \A k \in 1..2 :
                    movimientos'[Len(movimientos) + k].cantidad = t.cantidad]_vars

\* The quantities of the salida movements of movs for presentation p.
RECURSIVE SumaSalidas(_, _)
SumaSalidas(movs, p) ==
    IF movs = <<>> THEN 0
    ELSE (IF Head(movs).tipo = "salida" /\ Head(movs).presentacion_id = p
          THEN Head(movs).cantidad ELSE 0)
         + SumaSalidas(Tail(movs), p)

\* C12: a committed sale creation or order conversion decreases the quantity
\* of each presentation in the sale's warehouse by the sum of the quantities
\* of the salida movements it added for that presentation.
C12_DescuentoIgualAMovimientos ==
    [][(/\ req.op \in {"venta_post", "pedido_convert"}
        /\ resp.op = ""
        /\ resp'.status = 201)
       => LET a == ventas'[resp'.data.venta_id].almacen_id
              nuevos == SubSeq(movimientos', Len(movimientos) + 1, Len(movimientos'))
          IN  \A p \in Presentaciones :
                Disponible(inventario, a, p) - Disponible(inventario', a, p)
                    = SumaSalidas(nuevos, p)]_vars

\* C16: a request of a caller who is not an admin changes no inventory row
\* and no sale of a warehouse other than the caller's, and creates no sale
\* there.
C16_SoloSuAlmacen ==
    [][(/\ req.op \in {"venta_post", "venta_delete", "pedido_convert"}
        /\ resp.op = ""
        /\ req.actor.rol # "admin")
       => \A a \in Almacenes \ {req.actor.almacen_id} :
            /\ \A p \in Presentaciones : inventario'[a, p] = inventario[a, p]
            /\ \A v \in DOMAIN ventas :
                    ventas[v].almacen_id = a
                        => (v \in DOMAIN ventas' /\ ventas'[v] = ventas[v])
            /\ \A v \in DOMAIN ventas' \ DOMAIN ventas :
                    ventas'[v].almacen_id # a]_vars

C27_VentaSinLoteFalla ==
    [][(/\ Atiende("venta_post")
        /\ \E k \in 1..Len(req.detalles) :
            /\ inventario[req.almacen_id, req.detalles[k].presentacion_id].existe
            /\ inventario[req.almacen_id, req.detalles[k].presentacion_id].lote_id
                    = NoId)
       => (/\ resp'.status \notin {200, 201}
           /\ ventas' = ventas
           /\ movimientos' = movimientos
           /\ inventario' = inventario)]_vars

\* The movements whose motivo names exactly the sale venta_id.
MovimientosEmitidos(movs, venta_id) ==
    SelectSeq(movs, LAMBDA m : m.motivo = MotivoVenta(Str(venta_id)))

\* C28: the deletion of sale s removes only the movements s emitted and
\* credits only the stock s consumed: the movements of every other sale are
\* what they were, and the inventory is the one before the deletion with the
\* quantities of the movements of s given back.
C28_BorrarSoloLoDeLaVenta ==
    [][(/\ Atiende("venta_delete")
        /\ req.venta_id \in DOMAIN ventas)
       => (/\ \A s \in DOMAIN ventas \ {req.venta_id} :
                MovimientosEmitidos(movimientos', s)
                    = MovimientosEmitidos(movimientos, s)
           /\ inventario' = RevertirMovimientos(inventario,
                    ventas[req.venta_id].almacen_id,
                    MovimientosEmitidos(movimientos, req.venta_id)))]_vars

\* C29: the conversion of an order emits one movement per line tagged with
\* the id of the sale it creates, and the deletion of that sale, with no
\* other change of the inventory in between, returns the inventory to what
\* it was before the conversion and leaves no movement of a sale.
C29_ConversionYBorradoRestaura ==
    [][/\ (Atiende("pedido_convert") /\ resp'.status = 201)
            => Len(MovimientosEmitidos(movimientos', resp'.data.venta_id))
                    = Len(ventas'[resp'.data.venta_id].detalles)
       /\ (/\ Atiende("venta_delete")
           /\ req.venta_id = antes.venta_id
           /\ resp'.status = 200)
            => (/\ inventario' = antes.inventario
                /\ movimientos' = <<>>)]_vars

\* C30: a transfer of one line of q units of presentation P, the origin
\* holding at least q units in the row of the line's lot, into a warehouse
\* that has a row for P of whatever lot, does not fail and adds q to that
\* row.
C30_TransferADestinoExistente ==
    [][(/\ Atiende("transfer_post")
        /\ req.origen # req.destino
        /\ Len(req.ts) = 1
        /\ req.ts[1].cantidad > 0
        /\ ~TransferSinStock(inventario, req.origen, req.ts[1])
        /\ inventario[req.destino, req.ts[1].presentacion_id].existe)
       => LET p == req.ts[1].presentacion_id
          IN  /\ resp'.status = 200
              /\ inventario'[req.destino, p].cantidad =
                    inventario[req.destino, p].cantidad + req.ts[1].cantidad
              /\ inventario'[req.destino, p].lote_id =
                    inventario[req.destino, p].lote_id]_vars

\* The units of presentation p the lines of a sale ask for.
RECURSIVE UnidadesPedidas(_, _)
UnidadesPedidas(detalles, p) ==
    IF detalles = <<>> THEN 0
    ELSE (IF Head(detalles).presentacion_id = p THEN Head(detalles).cantidad ELSE 0)
         + UnidadesPedidas(Tail(detalles), p)

\* C17: a sale creation that passed its stock check commits, and writes the
\* quantity it read minus the quantity of its line, whatever another sale has
\* committed since the read; so two concurrent creations that both pass the
\* check can sell more units than the row held.
C17_CarreraEscribeLoLeido ==
    [][\A h \in Hilos :
        (hilos[h].fase = "leido" /\ hilos'[h].fase = "hecho"
            /\ hilos[h].req.consumo = 0)
        => LET r == hilos[h].req IN
           /\ hilos'[h].status = 201
           /\ \A p \in Presentaciones :
                CantidadADescontar(r.detalles, p) # 0
                  => inventario'[r.almacen_id, p].cantidad =
                        hilos[h].leido[r.almacen_id, p].cantidad
                            - CantidadADescontar(r.detalles, p)]_vars

\* Two sales of one line each, of the same presentation in the same
\* warehouse, were both committed, and together they sold more units than
\* the row held before either of them.
C17_Witness ==
    /\ \A h \in Hilos : hilos[h].fase = "hecho" /\ hilos[h].status = 201
                          /\ Len(hilos[h].req.detalles) = 1
    /\ hilos[1].req.almacen_id = hilos[2].req.almacen_id
    /\ \E p \in Presentaciones :
            UnidadesPedidas(hilos[1].req.detalles, p)
                + UnidadesPedidas(hilos[2].req.detalles, p)
            > InventarioInicial[hilos[1].req.almacen_id, p].cantidad

\* The inventory with the units of the movements of a sale given back.
InventarioSinVenta(venta_id) ==
    RevertirMovimientos(inventario, ventas[venta_id].almacen_id,
                        MovimientosDeVenta(movimientos, venta_id))

C20_AlmacenInmutable ==
    [][(/\ Atiende("venta_put")
        /\ req.venta_id \in DOMAIN ventas
        /\ "almacen_id" \in req.campos
        /\ req.almacen_id # ventas[req.venta_id].almacen_id)
       => (/\ resp'.status \in {400, 403}
           /\ ventas' = ventas
           /\ inventario' = inventario
           /\ movimientos' = movimientos)]_vars

\* An admin's update naming only another warehouse was answered 400 for the
\* immutable field.
C20_Witness ==
    /\ req.op = "venta_put"
    /\ req.actor.rol = "admin"
    /\ req.campos = {"almacen_id"}
    /\ req.venta_id \in DOMAIN ventas
    /\ req.almacen_id # ventas[req.venta_id].almacen_id
    /\ resp.status = 400
    /\ resp.error = "campo_inmutable"
    /\ resp.data.campo = "almacen_id"

(***************************************************************************)
(* Payments.  Venta.saldo_pendiente and Venta.actualizar_estado.           *)
(***************************************************************************)
\* The amounts a request may carry, in cents.
Montos == {-3000, 0, 2000, 3000, 6000}

\* A monto field of a form: absent, not a decimal, or a decimal.
CampoMonto == [tipo : {"ausente", "invalido"}, valor : {0}]
              \cup [tipo : {"decimal"}, valor : Montos]

\* The venta_id a request may name: the two sales of the payments model and
\* an id no sale has.
IdsVenta == {1, 2, 3}

PagosDeVenta(tabla, venta_id) == {q \in DOMAIN tabla : tabla[q].venta_id = venta_id}

RECURSIVE SumaMontos(_, _)
\* sum(pago.monto for pago in ...) over the rows ids of tabla
SumaMontos(tabla, ids) ==
    IF ids = {} THEN 0
    ELSE LET q == CHOOSE x \in ids : TRUE
         IN  tabla[q].monto + SumaMontos(tabla, ids \ {q})

TotalPagado(tabla, venta_id) == SumaMontos(tabla, PagosDeVenta(tabla, venta_id))

\* Venta.saldo_pendiente
SaldoPendiente(tabla, vs, venta_id) == vs[venta_id].total - TotalPagado(tabla, venta_id)

\* abs(saldo) <= 0.001, saldo in cents
DentroDeEpsilon(saldo) == Abs(saldo) * 10 <= 1

\* Venta.actualizar_estado(nuevo_pago): total_pagado is the sum over
\* self.pagos as the session holds them, plus nuevo_pago.monto.
ActualizarEstado(total, total_pagado) ==
    IF DentroDeEpsilon(total - total_pagado) THEN "pagado"
    ELSE IF total_pagado > 0 THEN "parcial"
    ELSE "pendiente"

(***************************************************************************)
(* utils/file_handlers.py: save_file and delete_file.                      *)
(***************************************************************************)
\* The keys app.config holds once app.py has run.
ConfigApp ==
    {"SQLALCHEMY_DATABASE_URI", "SQLALCHEMY_TRACK_MODIFICATIONS", "S3_BUCKET",
     "S3_REGION", "MAX_CONTENT_LENGTH", "ALLOWED_EXTENSIONS",
     "JWT_ACCESS_TOKEN_EXPIRES", "JWT_ALGORITHM", "JWT_SECRET_KEY",
     "JWT_BLACKLIST_ENABLED", "RATELIMIT_STORAGE_URL", "RATELIMIT_STRATEGY"}

\* use_s3 = all([config.get('S3_BUCKET'), config.get('S3_REGION'),
\*               config.get('S3_LOCATION')])
UsaS3 == {"S3_BUCKET", "S3_REGION", "S3_LOCATION"} \subseteq ConfigApp

\* app.config['ALLOWED_EXTENSIONS']
ExtensionesPermitidas == {"png", "jpg", "jpeg", "pdf"}

\* The file a form carries under 'comprobante', by its extension; "" when it
\* carries none.
Comprobantes == {"", "pdf", "exe"}

\* The value of a column url_comprobante: NULL, or what save_file returned
\* for the object it stored under a key, the S3 URL or the path /uploads/...
SinUrl == [tipo |-> "", clave |-> 0]

UrlDe(clave) == [tipo |-> IF UsaS3 THEN "s3" ELSE "local", clave |-> clave]

\* save_file(file, subfolder): None for an extension that is not allowed,
\* else the object is stored under a fresh name and its URL returned.
SaveFile(objs, archivo) ==
    IF archivo \notin ExtensionesPermitidas
    THEN [url |-> SinUrl, objetos |-> objs]
    ELSE [url |-> UrlDe(Len(objs) + 1), objetos |-> Append(objs, TRUE)]

\* delete_file(file_identifier): the S3 object when S3 is in use; for a path
\* /uploads/... delete_local_file, which returns False without removing
\* anything when config has no UPLOAD_FOLDER.
DeleteFile(objs, url) ==
    IF url = SinUrl THEN objs
    ELSE IF UsaS3 /\ url.tipo = "s3"
    THEN [objs EXCEPT ![url.clave] = FALSE]
    ELSE IF url.tipo = "local" /\ "UPLOAD_FOLDER" \in ConfigApp
    THEN [objs EXCEPT ![url.clave] = FALSE]
    ELSE objs

\* Pago.__table_args__: CheckConstraint on metodo_pago.
MetodosPago ==
    {"efectivo", "deposito", "transferencia", "tarjeta", "yape_plin", "otro"}

\* The metodo_pago a form may carry.
MetodosPeticion == {"efectivo", "cheque"}

\* A row of table pagos.
FilaPago(venta_id, monto, url) ==
    [venta_id |-> venta_id, monto |-> monto, url_comprobante |-> url]

(***************************************************************************)
(* PagoResource.post (multipart/form-data)                                 *)
(***************************************************************************)
PeticionPagoPost ==
    [op : {"pago_post"}, venta_id : IdsVenta, monto : CampoMonto,
     metodo_pago : MetodosPeticion, comprobante : Comprobantes]

PagoPost ==
    LET id == seqPago + 1
        venta_id == req.venta_id
        monto == req.monto.valor
        guardado == IF req.comprobante = "" THEN [url |-> SinUrl, objetos |-> objetos]
                    ELSE SaveFile(objetos, req.comprobante)
    IN
    /\ Atiende("pago_post")
    /\ IF req.monto.tipo = "ausente"
       THEN /\ resp' = Respuesta("pago_post", 400, "faltan_campos", SinDatos)
            /\ UNCHANGED <<pagos, ventas, seqPago, objetos>>
       ELSE IF req.monto.tipo = "invalido"
       THEN /\ resp' = Respuesta("pago_post", 400, "monto_invalido", SinDatos)
            /\ UNCHANGED <<pagos, ventas, seqPago, objetos>>
       ELSE IF venta_id \notin DOMAIN ventas
       THEN /\ resp' = Respuesta("pago_post", 404, "not_found", SinDatos)
            /\ UNCHANGED <<pagos, ventas, seqPago, objetos>>
       ELSE IF monto > SaldoPendiente(pagos, ventas, venta_id)
       THEN /\ resp' = Respuesta("pago_post", 400, "excede_saldo", SinDatos)
            /\ UNCHANGED <<pagos, ventas, seqPago, objetos>>
       ELSE IF req.comprobante # "" /\ guardado.url = SinUrl
       THEN /\ resp' = Respuesta("pago_post", 500, "error_subida", SinDatos)
            /\ UNCHANGED <<pagos, ventas, seqPago, objetos>>
       ELSE IF req.metodo_pago \notin MetodosPago
       THEN \* the INSERT of the commit fails the CheckConstraint:
            \* handle_db_errors rolls back; the id it took is spent
            /\ objetos' = guardado.objetos
            /\ seqPago' = id
            /\ resp' = Respuesta("pago_post", 500, "error_interno", SinDatos)
            /\ UNCHANGED <<pagos, ventas>>
       ELSE /\ objetos' = guardado.objetos
            /\ seqPago' = id
            /\ pagos' = Insertar(pagos, id, FilaPago(venta_id, monto, guardado.url))
            \* venta.actualizar_estado(nuevo_pago): venta.pagos was loaded
            \* before the Pago was created and does not hold it
            /\ ventas' = [ventas EXCEPT ![venta_id].estado_pago =
                            ActualizarEstado(ventas[venta_id].total,
                                             TotalPagado(pagos, venta_id) + monto)]
            /\ resp' = Respuesta("pago_post", 201, "", [pago_id |-> id])
    /\ UNCHANGED <<inventario, movimientos, pedidos, seqVenta, seqPedido,
                   req, hilos, depositos, antes>>

(***************************************************************************)
(* PagoResource.put (multipart/form-data)                                  *)
(***************************************************************************)
\* SaldoSinPago without the filter p.id != pago_id: the balance that still
\* counts the payment being edited.
SaldoConPago(tabla, vs, pago_id) ==
    LET venta_id == tabla[pago_id].venta_id
    IN  vs[venta_id].total - SumaMontos(tabla, PagosDeVenta(tabla, venta_id))

\* saldo_actual_sin_pago = venta.total - sum(p.monto for p in venta.pagos
\*                                          if p.id != pago_id)
SaldoSinPago(tabla, vs, pago_id) ==
    LET venta_id == tabla[pago_id].venta_id
    IN  vs[venta_id].total -
            SumaMontos(tabla, PagosDeVenta(tabla, venta_id) \ {pago_id})

\* The estado_pago a put that changes the amount leaves: pago.monto is set to
\* nuevo_monto first, and actualizar_estado(AjustePago(ajuste_monto)) then
\* sums venta.pagos, the edited payment with its new amount among them, and
\* adds ajuste_monto = nuevo_monto - monto_original.
EstadoTrasPut(tabla, vs, pago_id, nuevo_monto) ==
    LET venta_id == tabla[pago_id].venta_id
        editada == [tabla EXCEPT ![pago_id].monto = nuevo_monto]
        ajuste == nuevo_monto - tabla[pago_id].monto
    IN  IF ajuste # 0
        THEN ActualizarEstado(vs[venta_id].total,
                              TotalPagado(editada, venta_id) + ajuste)
        ELSE vs[venta_id].estado_pago

PeticionPagoPut ==
    [op : {"pago_put"}, pago_id : 1..MaxPagos, monto : CampoMonto,
     comprobante : Comprobantes, eliminar_comprobante : BOOLEAN]

PagoPut ==
    LET pago_id == req.pago_id
        anterior == pagos[pago_id].url_comprobante
        \* if pago.url_comprobante: delete_file(pago.url_comprobante), and
        \* only then save_file(file, 'comprobantes')
        guardado == SaveFile(DeleteFile(objetos, anterior), req.comprobante)
        con_monto == IF req.monto.tipo = "decimal"
                     THEN [pagos EXCEPT ![pago_id].monto = req.monto.valor]
                     ELSE pagos
        estado == IF req.monto.tipo = "decimal"
                  THEN EstadoTrasPut(pagos, ventas, pago_id, req.monto.valor)
                  ELSE ventas[pagos[pago_id].venta_id].estado_pago
    IN
    /\ Atiende("pago_put")
    /\ IF pago_id \notin DOMAIN pagos
       THEN /\ resp' = Respuesta("pago_put", 404, "not_found", SinDatos)
            /\ UNCHANGED <<pagos, ventas, objetos>>
       ELSE IF req.monto.tipo = "invalido"
       THEN /\ resp' = Respuesta("pago_put", 400, "monto_invalido", SinDatos)
            /\ UNCHANGED <<pagos, ventas, objetos>>
       ELSE IF /\ req.monto.tipo = "decimal"
               /\ req.monto.valor > SaldoSinPago(pagos, ventas, pago_id)
       THEN /\ resp' = Respuesta("pago_put", 400, "excede_saldo", SinDatos)
            /\ UNCHANGED <<pagos, ventas, objetos>>
       ELSE IF req.comprobante # "" /\ guardado.url = SinUrl
       THEN \* return without commit: the session is discarded, what
            \* delete_file removed stays removed
            /\ objetos' = guardado.objetos
            /\ resp' = Respuesta("pago_put", 500, "error_subida", SinDatos)
            /\ UNCHANGED <<pagos, ventas>>
       ELSE /\ objetos' = IF req.comprobante # "" THEN guardado.objetos
                          ELSE IF req.eliminar_comprobante
                          THEN DeleteFile(objetos, anterior)
                          ELSE objetos
            /\ pagos' = [con_monto EXCEPT ![pago_id].url_comprobante =
                            IF req.comprobante # "" THEN guardado.url
                            ELSE IF req.eliminar_comprobante THEN SinUrl
                            ELSE @]
            /\ ventas' = [ventas EXCEPT ![pagos[pago_id].venta_id].estado_pago =
                            estado]
            /\ resp' = Respuesta("pago_put", 200, "", [pago_id |-> pago_id])
    /\ UNCHANGED <<inventario, movimientos, pedidos,
                   seqVenta, seqPedido, seqPago, req, hilos, depositos, antes>>

(***************************************************************************)
(* PagoResource.delete                                                     *)
(***************************************************************************)
PeticionPagoDelete == [op : {"pago_delete"}, pago_id : 1..MaxPagos]

PagoDelete ==
    LET pago_id == req.pago_id IN
    /\ Atiende("pago_delete")
    /\ IF pago_id \notin DOMAIN pagos
       THEN /\ resp' = Respuesta("pago_delete", 404, "not_found", SinDatos)
            /\ UNCHANGED <<pagos, ventas, objetos>>
       ELSE LET venta_id == pagos[pago_id].venta_id IN
            \* actualizar_estado(AjustePago(-pago.monto)) before the delete
            /\ ventas' = [ventas EXCEPT ![venta_id].estado_pago =
                            ActualizarEstado(ventas[venta_id].total,
                                TotalPagado(pagos, venta_id) - pagos[pago_id].monto)]
            \* if pago.url_comprobante: delete_file(pago.url_comprobante)
            /\ objetos' = DeleteFile(objetos, pagos[pago_id].url_comprobante)
            /\ pagos' = Borrar(pagos, {pago_id})
            /\ resp' = Respuesta("pago_delete", 200, "", [pago_id |-> pago_id])
    /\ UNCHANGED <<inventario, movimientos, pedidos,
                   seqVenta, seqPedido, seqPago, req, hilos, depositos, antes>>

(***************************************************************************)
(* PagoBatchResource.post                                                  *)
(***************************************************************************)
\* The names bound at module level in resources/pago_resource.py.
NombresPagoResource ==
    {"Resource", "jwt_required", "get_jwt", "request", "Pago", "Venta", "Users",
     "pago_schema", "pagos_schema", "db", "handle_db_errors",
     "MAX_ITEMS_PER_PAGE", "Decimal", "save_file", "delete_file",
     "get_presigned_url", "asc", "desc", "json", "logging", "logger"}

\* A name the handler reads is bound, or reading it raises NameError.
Enlazado(nombres, nombre) == nombre \in nombres

Par == [venta_id : {NoId} \cup IdsVenta, monto : CampoMonto]

Pares == UNION {[1..n -> Par] : n \in 0..MaxPares}

\* The checks of the loop over pagos_data_list for one pair, against the
\* persisted payments: the Pago objects of the earlier pairs are neither in
\* the session nor in venta.pagos.  Status 201 when the pair passes.
ParRechazado(tabla, vs, actor, par) ==
    IF par.venta_id = NoId \/ par.monto.tipo = "ausente"
    THEN [status |-> 400, error |-> "faltan_campos"]
    ELSE IF par.monto.tipo = "invalido"
    THEN \* Decimal raises InvalidOperation; "except InvalidOperation" names
         \* an unbound name unless it is imported
         IF Enlazado(NombresPagoResource, "InvalidOperation")
         THEN [status |-> 400, error |-> "monto_invalido"]
         ELSE [status |-> 500, error |-> "error_interno"]
    ELSE IF par.monto.valor <= 0
    THEN [status |-> 400, error |-> "monto_no_positivo"]
    ELSE IF par.venta_id \notin DOMAIN vs
    THEN [status |-> 404, error |-> "not_found"]
    ELSE IF actor.rol # "admin" /\ vs[par.venta_id].almacen_id # actor.almacen_id
    THEN [status |-> 403, error |-> "acceso_denegado"]
    ELSE IF par.monto.valor > SaldoPendiente(tabla, vs, par.venta_id)
    THEN [status |-> 400, error |-> "excede_saldo"]
    ELSE [status |-> 201, error |-> ""]

ParesRechazados(tabla, vs, actor, pares) ==
    {k \in 1..Len(pares) : ParRechazado(tabla, vs, actor, pares[k]).status # 201}

\* What the request leaves in table pagos when every pair passed: the handler
\* adds the Pago objects to the session and returns; neither it nor
\* handle_db_errors commits, and the session is discarded with the request.
PagosTrasBatch(tabla, pares) == tabla

\* PagoBatch with each pair persisted as soon as it passes its checks: the
\* pairs before the one that fails stay in table pagos.
RECURSIVE InsertarPares(_, _, _)
InsertarPares(tabla, seq, pares) ==
    IF pares = <<>> THEN tabla
    ELSE InsertarPares(
            Insertar(tabla, seq + 1,
                     FilaPago(Head(pares).venta_id, Head(pares).monto.valor,
                              SinUrl)),
            seq + 1, Tail(pares))

PeticionPagoBatch ==
    [op : {"pago_batch"}, actor : Actores, pares : Pares,
     comprobante : Comprobantes]

\* PagoBatch reaching its loop and committing what it adds, with the check
\* of the sale's warehouse against the caller's left out of the loop.
PagoBatchSinAlmacen ==
    LET admin == [rol |-> "admin", almacen_id |-> NoId]
        malos == ParesRechazados(pagos, ventas, admin, req.pares)
    IN
    /\ Atiende("pago_batch")
    /\ IF req.pares = <<>>
       THEN /\ resp' = Respuesta("pago_batch", 400, "lista_vacia", SinDatos)
            /\ UNCHANGED <<pagos, seqPago>>
       ELSE IF malos # {}
       THEN /\ resp' = Respuesta("pago_batch",
                        ParRechazado(pagos, ventas, admin,
                                     req.pares[Primero(malos)]).status,
                        ParRechazado(pagos, ventas, admin,
                                     req.pares[Primero(malos)]).error,
                        SinDatos)
            /\ UNCHANGED <<pagos, seqPago>>
       ELSE /\ resp' = Respuesta("pago_batch", 201, "", SinDatos)
            /\ pagos' = InsertarPares(pagos, seqPago, req.pares)
            /\ seqPago' = seqPago + Len(req.pares)
    /\ UNCHANGED <<inventario, ventas, movimientos, pedidos,
                   seqVenta, seqPedido, req, hilos, objetos, depositos, antes>>

PagoBatchPorPar ==
    LET malos == ParesRechazados(pagos, ventas, req.actor, req.pares)
        hechos == IF malos = {} THEN req.pares
                  ELSE SubSeq(req.pares, 1, Primero(malos) - 1)
    IN
    /\ Atiende("pago_batch")
    /\ resp' = IF malos # {}
               THEN Respuesta("pago_batch",
                        ParRechazado(pagos, ventas, req.actor,
                                     req.pares[Primero(malos)]).status,
                        ParRechazado(pagos, ventas, req.actor,
                                     req.pares[Primero(malos)]).error,
                        SinDatos)
               ELSE Respuesta("pago_batch", 201, "", SinDatos)
    /\ pagos' = InsertarPares(pagos, seqPago, hechos)
    /\ seqPago' = seqPago + Len(hechos)
    /\ UNCHANGED <<inventario, ventas, movimientos, pedidos,
                   seqVenta, seqPedido, req, hilos, objetos, depositos, antes>>

PagoBatch ==
    LET pares == req.pares
        malos == ParesRechazados(pagos, ventas, req.actor, pares)
        guardado == SaveFile(objetos, req.comprobante)
    IN
    /\ Atiende("pago_batch")
    /\ IF pares = <<>>
       THEN /\ resp' = Respuesta("pago_batch", 400, "lista_vacia", SinDatos)
            /\ UNCHANGED <<pagos, objetos>>
       ELSE IF ~Enlazado(NombresPagoResource, "datetime")
       THEN \* fecha_pago = datetime.fromisoformat(fecha_str): NameError,
            \* caught by "except Exception" of the form parsing
            /\ resp' = Respuesta("pago_batch", 400, "form_invalido", SinDatos)
            /\ UNCHANGED <<pagos, objetos>>
       ELSE IF req.comprobante = ""
       THEN /\ resp' = Respuesta("pago_batch", 400, "sin_comprobante", SinDatos)
            /\ UNCHANGED <<pagos, objetos>>
       ELSE IF guardado.url = SinUrl
       THEN /\ resp' = Respuesta("pago_batch", 500, "error_subida", SinDatos)
            /\ UNCHANGED <<pagos, objetos>>
       ELSE IF malos # {}
       THEN \* the loop returns; no return of it calls delete_file
            /\ resp' = Respuesta("pago_batch",
                        ParRechazado(pagos, ventas, req.actor,
                                     pares[Primero(malos)]).status,
                        ParRechazado(pagos, ventas, req.actor,
                                     pares[Primero(malos)]).error,
                        SinDatos)
            /\ objetos' = guardado.objetos
            /\ UNCHANGED pagos
       ELSE /\ resp' = Respuesta("pago_batch", 201, "", SinDatos)
            /\ objetos' = guardado.objetos
            /\ pagos' = PagosTrasBatch(pagos, pares)
    /\ UNCHANGED <<inventario, ventas, movimientos, pedidos,
                   seqVenta, seqPedido, seqPago, req, hilos, depositos, antes>>

(***************************************************************************)
(* DepositoBancarioResource.post                                           *)
(***************************************************************************)
\* The almacen_id a form may name: the two warehouses and an id no
\* warehouse has.
IdsAlmacen == Almacenes \cup {3}

\* pago_ids: payments the client names in the form; the handler reads the
\* fields fecha_deposito, monto_depositado, almacen_id, referencia_bancaria
\* and notas, and the file comprobante.
PeticionDepositoPost ==
    [op : {"deposito_post"}, monto_depositado : CampoMonto,
     almacen_id : IdsAlmacen, comprobante : Comprobantes,
     pago_ids : SUBSET (1..MaxPagos)]

\* A row of table depositos_bancarios.
FilaDeposito(monto, almacen_id, url) ==
    [monto_depositado |-> monto, almacen_id |-> almacen_id,
     url_comprobante_deposito |-> url]

DepositoPost ==
    LET monto == req.monto_depositado
        guardado == IF req.comprobante = "" THEN [url |-> SinUrl, objetos |-> objetos]
                    ELSE SaveFile(objetos, req.comprobante)
    IN
    /\ Atiende("deposito_post")
    /\ IF monto.tipo = "ausente"
       THEN /\ resp' = Respuesta("deposito_post", 400, "faltan_campos", SinDatos)
            /\ UNCHANGED <<depositos, objetos>>
       ELSE IF monto.tipo = "invalido"
       THEN \* Decimal raises InvalidOperation, an ArithmeticError that
            \* "except (ValueError, TypeError)" lets through to
            \* handle_db_errors
            /\ resp' = Respuesta("deposito_post", 500, "error_interno", SinDatos)
            /\ UNCHANGED <<depositos, objetos>>
       ELSE IF monto.valor <= 0
       THEN /\ resp' = Respuesta("deposito_post", 400, "monto_no_positivo", SinDatos)
            /\ UNCHANGED <<depositos, objetos>>
       ELSE IF req.almacen_id \notin Almacenes
       THEN /\ resp' = Respuesta("deposito_post", 404, "not_found", SinDatos)
            /\ UNCHANGED <<depositos, objetos>>
       ELSE IF req.comprobante # "" /\ guardado.url = SinUrl
       THEN /\ resp' = Respuesta("deposito_post", 500, "error_subida", SinDatos)
            /\ UNCHANGED <<depositos, objetos>>
       ELSE /\ objetos' = guardado.objetos
            /\ depositos' = Append(depositos,
                    FilaDeposito(monto.valor, req.almacen_id, guardado.url))
            /\ resp' = Respuesta("deposito_post", 201, "",
                                 [deposito_id |-> Len(depositos) + 1])
    /\ UNCHANGED <<inventario, ventas, movimientos, pedidos, pagos,
                   seqVenta, seqPedido, seqPago, req, hilos, antes>>

(***************************************************************************)
(* Payments on two sales, one in each warehouse.                           *)
(***************************************************************************)
InventarioPagos ==
    [a \in Almacenes, p \in Presentaciones |->
        IF a = p THEN FilaInventario(StockInicial, 1) ELSE SinInventario]

DetallesVenta1 == <<[presentacion_id |-> 1, cantidad |-> 2]>>

DetallesVenta2 == <<[presentacion_id |-> 2, cantidad |-> 2]>>

InitPagos ==
    /\ inventario = DescontarVenta(DescontarVenta(InventarioPagos, 1, DetallesVenta1),
                                   2, DetallesVenta2)
    /\ ventas = Insertar(Insertar(TablaVacia, 1, NuevaVenta(1, DetallesVenta1)),
                         2, NuevaVenta(2, DetallesVenta2))
    /\ movimientos = MovimientosVenta(InventarioPagos, 1, DetallesVenta1, Str(1))
                     \o MovimientosVenta(InventarioPagos, 2, DetallesVenta2, Str(2))
    /\ pedidos = TablaVacia
    /\ pagos = TablaVacia
    /\ seqVenta = 2
    /\ seqPedido = 0
    /\ seqPago = 0
    /\ req = SinPeticion
    /\ resp = SinRespuesta
    /\ antes = [venta_id |-> 2,
                inventario |-> DescontarVenta(InventarioPagos, 1, DetallesVenta1)]
    /\ hilos = HilosLibres
    /\ objetos = <<>>
    /\ depositos = <<>>

\* The batches of one pair whose amount is a decimal.
ParesSimples == {<<par>> : par \in {x \in Par : x.monto.tipo = "decimal"
                                                /\ x.venta_id \in DOMAIN ventas}}

\* A request that stores or removes no file: a payment by a metodo_pago of
\* the table's constraint and without comprobante; a batch with the
\* comprobante it requires.
SinArchivo(r) ==
    /\ r.op = "pago_post" => (r.metodo_pago = "efectivo" /\ r.comprobante = "")
    /\ r.op = "pago_put" => (r.comprobante = "" /\ ~r.eliminar_comprobante)
    /\ r.op = "pago_batch" => r.comprobante = "pdf"

PeticionesPagos ==
    {r \in PeticionPagoPost : seqPago < MaxPagos /\ SinArchivo(r)}
        \cup {r \in PeticionPagoPut : SinArchivo(r)}
        \cup PeticionPagoDelete
        \cup [op : {"pago_batch"}, actor : Actores, pares : ParesSimples,
              comprobante : {"pdf"}]

NextPagos ==
    \/ Recibir(PeticionesPagos)
    \/ PagoPost
    \/ PagoPut
    \/ PagoDelete
    \/ PagoBatch
    \/ Teardown

SpecPagos == InitPagos /\ [][NextPagos]_vars

\* The same requests from clients that send positive amounts only.
MontoPositivo(r) == r.monto.tipo = "decimal" => r.monto.valor > 0

NextPagosPositivos ==
    \/ Recibir({r \in PeticionesPagos :
                    r.op \in {"pago_post", "pago_put"} => MontoPositivo(r)})
    \/ PagoPost
    \/ PagoPut
    \/ PagoDelete
    \/ PagoBatch
    \/ Teardown

SpecPagosPositivos == InitPagos /\ [][NextPagosPositivos]_vars

\* Batches over the two sales, with or without an earlier payment.
PeticionesBatch ==
    {r \in PeticionPagoPost : /\ seqPago < 1
                              /\ r.venta_id = 1
                              /\ r.monto = [tipo |-> "decimal", valor |-> 2000]
                              /\ SinArchivo(r)}
        \cup {r \in PeticionPagoBatch : SinArchivo(r)}

NextBatch ==
    \/ Recibir(PeticionesBatch)
    \/ PagoPost
    \/ PagoBatch
    \/ Teardown

SpecBatch == InitPagos /\ [][NextBatch]_vars

(***************************************************************************)
(* Payments with receipts: created, edited and deleted on sale 1.          *)
(***************************************************************************)
\* A request that has save_file store an object is dispatched while fewer
\* than MaxObjetos were stored.
PeticionesComprobantes ==
    {r \in PeticionPagoPost :
        /\ seqPago < MaxPagos
        /\ r.venta_id = 1
        /\ r.monto = [tipo |-> "decimal", valor |-> 2000]
        /\ (r.comprobante \in ExtensionesPermitidas => Len(objetos) < MaxObjetos)}
    \cup {r \in PeticionPagoPut :
        /\ r.monto.tipo = "ausente"
        /\ (r.comprobante \in ExtensionesPermitidas => Len(objetos) < MaxObjetos)}
    \cup PeticionPagoDelete

NextComprobantes ==
    \/ Recibir(PeticionesComprobantes)
    \/ PagoPost
    \/ PagoPut
    \/ PagoDelete
    \/ Teardown

SpecComprobantes == InitPagos /\ [][NextComprobantes]_vars

(***************************************************************************)
(* Payments on sale 1 and bank deposits.                                   *)
(***************************************************************************)
PeticionesDepositos ==
    {r \in PeticionPagoPost :
        /\ seqPago < MaxPagos
        /\ r.venta_id = 1
        /\ r.monto = [tipo |-> "decimal", valor |-> 2000]
        /\ SinArchivo(r)}
    \cup {r \in PeticionDepositoPost :
        /\ Len(depositos) < MaxDepositos
        /\ (r.comprobante \in ExtensionesPermitidas => Len(objetos) < MaxObjetos)}

NextDepositos ==
    \/ Recibir(PeticionesDepositos)
    \/ PagoPost
    \/ DepositoPost
    \/ Teardown

SpecDepositos == InitPagos /\ [][NextDepositos]_vars

(***************************************************************************)
(* Payments added by two workers at the same time.  Each worker runs       *)
(* PagoResource.post in its own session and transaction: the load of the   *)
(* sale and of its payments and the balance check, then the add and the    *)
(* commit.  Another worker may commit between the two.                     *)
(***************************************************************************)
\* The load of venta and venta.pagos, and the check of the amount against
\* the balance they give.
HiloPagoLee(h) ==
    LET r == hilos[h].req IN
    /\ hilos[h].fase = "recibido"
    /\ r.op = "pago_post"
    /\ hilos' = [hilos EXCEPT ![h] =
            IF r.monto.tipo = "ausente"
            THEN HiloHecho(r, 400, "faltan_campos")
            ELSE IF r.monto.tipo = "invalido"
            THEN HiloHecho(r, 400, "monto_invalido")
            ELSE IF r.venta_id \notin DOMAIN ventas
            THEN HiloHecho(r, 404, "not_found")
            ELSE IF r.monto.valor > SaldoPendiente(pagos, ventas, r.venta_id)
            THEN HiloHecho(r, 400, "excede_saldo")
            ELSE [fase |-> "leido", req |-> r,
                  leido |-> TotalPagado(pagos, r.venta_id)]]
    /\ UNCHANGED <<inventario, ventas, movimientos, pedidos, pagos,
                   seqVenta, seqPedido, seqPago, req, resp, antes,
                   objetos, depositos>>

\* db.session.add(nuevo_pago), venta.actualizar_estado(nuevo_pago) over the
\* venta.pagos that was loaded, and the commit.
HiloPagoEscribe(h) ==
    LET r == hilos[h].req
        id == seqPago + 1
    IN
    /\ hilos[h].fase = "leido"
    /\ r.op = "pago_post"
    /\ seqPago' = id
    /\ pagos' = Insertar(pagos, id, FilaPago(r.venta_id, r.monto.valor, SinUrl))
    /\ ventas' = [ventas EXCEPT ![r.venta_id].estado_pago =
                    ActualizarEstado(ventas[r.venta_id].total,
                                     hilos[h].leido + r.monto.valor)]
    /\ hilos' = [hilos EXCEPT ![h] = HiloHecho(r, 201, "")]
    /\ UNCHANGED <<inventario, movimientos, pedidos, seqVenta, seqPedido,
                   req, resp, antes,
                   objetos, depositos>>

\* The payments the two workers are given: of a positive amount when the
\* amount is a decimal.
PeticionesCarreraPagos ==
    {r \in PeticionPagoPost : MontoPositivo(r) /\ SinArchivo(r)}

NextCarreraPagos ==
    \/ \E h \in Hilos : HiloRecibe(h, PeticionesCarreraPagos)
    \/ \E h \in Hilos : HiloPagoLee(h)
    \/ \E h \in Hilos : HiloPagoEscribe(h)

SpecCarreraPagos == InitPagos /\ [][NextCarreraPagos]_vars

(***************************************************************************)
(* Properties of the payments.                                             *)
(***************************************************************************)
\* C2: for every sale, the amounts of its persisted payments sum to at most
\* the total of the sale.
C2_PagosNoExcedenTotal ==
    \A v \in DOMAIN ventas : TotalPagado(pagos, v) <= ventas[v].total

\* C3: estado_pago of every sale is the value its persisted payments give:
\* pendiente when they sum to 0, parcial when the sum is between 0 and the
\* total, pagado when the sum is the total.
C3_EstadoDerivado ==
    \A v \in DOMAIN ventas :
        LET suma == TotalPagado(pagos, v) IN
        /\ suma = 0 => ventas[v].estado_pago = "pendiente"
        /\ (0 < suma /\ suma < ventas[v].total) => ventas[v].estado_pago = "parcial"
        /\ suma = ventas[v].total => ventas[v].estado_pago = "pagado"

\* The amounts a batch asks for one sale.
RECURSIVE MontoDelBatch(_, _)
MontoDelBatch(pares, v) ==
    IF pares = <<>> THEN 0
    ELSE (IF Head(pares).venta_id = v THEN Head(pares).monto.valor ELSE 0)
         + MontoDelBatch(Tail(pares), v)

\* C5: a batch of an admin whose pairs are each a positive amount within the
\* balance of an existing sale, and whose amounts for one sale sum to more
\* than the balance of that sale, is rejected by the balance check.
C5_SaldoAcumulado ==
    [][(/\ Atiende("pago_batch")
        /\ req.actor.rol = "admin"
        /\ \A k \in 1..Len(req.pares) :
                /\ req.pares[k].venta_id \in DOMAIN ventas
                /\ req.pares[k].monto.tipo = "decimal"
                /\ req.pares[k].monto.valor > 0
                /\ req.pares[k].monto.valor <=
                        SaldoPendiente(pagos, ventas, req.pares[k].venta_id)
        /\ \E v \in DOMAIN ventas :
                MontoDelBatch(req.pares, v) > SaldoPendiente(pagos, ventas, v))
       => (resp'.status = 400 /\ resp'.error = "excede_saldo")]_vars

\* C6: a batch with a pair that fails its checks, at any position, is
\* rejected, persists no payment and changes the estado_pago of no sale.
C6_BatchTodoONada ==
    [][(/\ Atiende("pago_batch")
        /\ ParesRechazados(pagos, ventas, req.actor, req.pares) # {})
       => (/\ resp'.status \notin {200, 201}
           /\ pagos' = pagos
           /\ ventas' = ventas)]_vars

\* The sales whose persisted payments sum to the total.
Saldadas == {v \in DOMAIN ventas : TotalPagado(pagos, v) = ventas[v].total}

\* C13: a sale whose payments sum to its total has estado_pago pagado, and an
\* add_payment, or a batch with a pair, of a positive amount for such a sale
\* is rejected and leaves the payments and the sales as they were.
C13_PagadaNoAdmiteMas ==
    /\ [](\A v \in Saldadas : ventas[v].estado_pago = "pagado")
    /\ [][(\/ /\ Atiende("pago_post")
              /\ req.venta_id \in Saldadas
              /\ req.monto.tipo = "decimal"
              /\ req.monto.valor > 0
           \/ /\ Atiende("pago_batch")
              /\ \E k \in 1..Len(req.pares) :
                    /\ req.pares[k].venta_id \in Saldadas
                    /\ req.pares[k].monto.tipo = "decimal"
                    /\ req.pares[k].monto.valor > 0)
          => (/\ resp'.status = 400
              /\ pagos' = pagos
              /\ ventas' = ventas)]_vars

\* C14: an update of the amount of a payment is accepted exactly when the new
\* amount is at most the total of the sale minus the other payments of the
\* sale; when it is rejected, the payments and the sales are what they were.
C14_PutContraSaldoSinElPago ==
    [][(/\ Atiende("pago_put")
        /\ req.pago_id \in DOMAIN pagos
        /\ req.monto.tipo = "decimal")
       => LET v == pagos[req.pago_id].venta_id
              otros == PagosDeVenta(pagos, v) \ {req.pago_id}
              cabe == req.monto.valor <= ventas[v].total - SumaMontos(pagos, otros)
          IN  /\ cabe <=> resp'.status = 200
              /\ cabe => pagos'[req.pago_id].monto = req.monto.valor
              /\ ~cabe => (/\ resp'.status = 400
                           /\ pagos' = pagos
                           /\ ventas' = ventas)]_vars

\* An update was rejected for an amount that the total of the sale alone
\* would admit: the other payment of the sale leaves no room for it.
C14_Witness ==
    /\ req.op = "pago_put"
    /\ resp.status = 400
    /\ resp.error = "excede_saldo"
    /\ req.monto.valor <= ventas[pagos[req.pago_id].venta_id].total
    /\ PagosDeVenta(pagos, pagos[req.pago_id].venta_id) # {req.pago_id}
    /\ \A q \in DOMAIN pagos : pagos[q].monto > 0

\* The pairs of a batch that name a sale of a warehouse other than the
\* caller's.
ParesAjenos(actor, pares) ==
    {k \in 1..Len(pares) :
        /\ pares[k].venta_id \in DOMAIN ventas
        /\ ventas[pares[k].venta_id].almacen_id # actor.almacen_id}

\* C15: a batch of a caller who is not an admin, with a pair for a sale of a
\* warehouse other than the caller's, is rejected and persists no payment.
C15_BatchDeOtroAlmacen ==
    [][(/\ Atiende("pago_batch")
        /\ req.actor.rol # "admin"
        /\ ParesAjenos(req.actor, req.pares) # {})
       => (/\ resp'.status \notin {200, 201}
           /\ pagos' = pagos
           /\ ventas' = ventas)]_vars

\* A batch of a warehouse user was rejected: its first pair is a positive
\* amount within the balance of a sale of the user's warehouse, its second
\* pair a positive amount within the balance of a sale of another warehouse.
C15_Witness ==
    /\ req.op = "pago_batch"
    /\ resp.op = "pago_batch"
    /\ resp.status \notin {200, 201}
    /\ req.actor.rol # "admin"
    /\ ParesAjenos(req.actor, req.pares) = {2}
    /\ ParRechazado(pagos, ventas, req.actor, req.pares[1]).status = 201
    /\ ParRechazado(pagos, ventas, [rol |-> "admin", almacen_id |-> NoId],
                    req.pares[2]).status = 201

\* C18: when two concurrent add_payment requests have both completed, the
\* payments of every sale sum to at most its total.
C18_CarreraPagosNoExcede ==
    (\A h \in Hilos : hilos[h].fase = "hecho")
        => \A v \in DOMAIN ventas : TotalPagado(pagos, v) <= ventas[v].total

\* A batch of two pairs was rejected: its first pair passes every check
\* against a sale that already has a payment, its second pair does not.
C6_Witness ==
    /\ req.op = "pago_batch"
    /\ resp.op = "pago_batch"
    /\ resp.status \notin {200, 201}
    /\ Len(req.pares) = 2
    /\ ParRechazado(pagos, ventas, req.actor, req.pares[1]).status = 201
    /\ ParRechazado(pagos, ventas, req.actor, req.pares[2]).status # 201
    /\ PagosDeVenta(pagos, req.pares[1].venta_id) # {}

(***************************************************************************)
(* Properties of the receipts.                                             *)
(***************************************************************************)
\* The URLs the rows of pagos and of depositos_bancarios hold.
Referenciadas(tabla, deps) ==
    {tabla[q].url_comprobante : q \in DOMAIN tabla}
        \cup {deps[k].url_comprobante_deposito : k \in 1..Len(deps)}

\* The stored objects that no persisted row references.
Huerfanos(objs, tabla, deps) ==
    {k \in 1..Len(objs) : objs[k] /\ UrlDe(k) \notin Referenciadas(tabla, deps)}

C22_PagoFallidoBorraComprobante ==
    [][(/\ Atiende("pago_post")
        /\ req.comprobante \in ExtensionesPermitidas
        /\ resp'.status # 201)
       => Huerfanos(objetos', pagos', depositos')
            \subseteq Huerfanos(objetos, pagos, depositos)]_vars

\* C23: no persisted payment references an object that is no longer stored;
\* and an update_payment that replaced the receipt of a payment has stored
\* the new object, persisted its reference, and removed the old object.
C23_ReemplazoDeComprobante ==
    /\ [](\A q \in DOMAIN pagos :
            pagos[q].url_comprobante # SinUrl
                => objetos[pagos[q].url_comprobante.clave])
    /\ [][(/\ Atiende("pago_put")
           /\ req.pago_id \in DOMAIN pagos
           /\ pagos[req.pago_id].url_comprobante # SinUrl
           /\ req.comprobante \in ExtensionesPermitidas
           /\ resp'.status = 200)
          => (/\ pagos'[req.pago_id].url_comprobante # pagos[req.pago_id].url_comprobante
              /\ objetos'[pagos'[req.pago_id].url_comprobante.clave]
              /\ ~objetos'[pagos[req.pago_id].url_comprobante.clave])]_vars

\* C25: a deposit that names payments and whose amount exceeds what they can
\* still take (no more than the sum of their amounts) is rejected and
\* changes no payment.
C25_DepositoExcedeLoNoDepositado ==
    [][(/\ Atiende("deposito_post")
        /\ req.pago_ids # {}
        /\ req.pago_ids \subseteq DOMAIN pagos
        /\ req.monto_depositado.tipo = "decimal"
        /\ req.monto_depositado.valor > SumaMontos(pagos, req.pago_ids))
       => (/\ resp'.status \in {400, 404}
           /\ pagos' = pagos
           /\ depositos' = depositos)]_vars

\* C26: every persisted payment has an amount above zero.
C26_MontoPersistidoPositivo ==
    \A q \in DOMAIN pagos : pagos[q].monto > 0

====
